---- MODULE Spec2Model ----
(***************************************************************************)
(* Model of the quiz core of the vocab backend (src/api/views.py and       *)
(* src/api/models.py): question selection, answer submission, the class    *)
(* summary and the clearing of a student's results.                        *)
(*                                                                         *)
(* The teachers, classrooms, students, categories and vocabulary items are *)
(* fixed tables (the quiz views never write them).  The TestSession and    *)
(* Result tables are the state.  A Result row is kept without its          *)
(* surrogate key: the table is a bag of (session, vocabulary, is_correct)  *)
(* rows, beside the table's key counter.  Percentages are kept in hundredths of a percent (round(x, 2)).   *)
(***************************************************************************)
EXTENDS Integers, FiniteSets, Sequences, Bags, TLC

\* ------------------------------------------------------------------ bounds

\* most Result rows ever inserted (the last value of the table's key)
MaxResults == 3

\* ------------------------------------------------------- the fixed tables

\* User rows with is_teacher = True
Users == {"t1", "t2"}

\* ClassRoom.id -> ClassRoom.teacher
ClassRoomTeacher == (1 :> "t1" @@ 2 :> "t2")

\* Student.id -> Student.class_room
StudentClassRoom == (1 :> 1 @@ 2 :> 1)

\* Category.id -> Category.teacher
CategoryTeacher == (1 :> "t1" @@ 2 :> "t1" @@ 3 :> "t2")

\* Student.id -> Student.full_name
StudentName == (1 :> "ali" @@ 2 :> "bek")

\* Vocabulary.id -> Vocabulary.category
VocabularyCategory == (1 :> 1 @@ 2 :> 1 @@ 3 :> 1 @@ 4 :> 2 @@ 5 :> 2 @@ 6 :> 2)

\* Vocabulary.id -> Vocabulary.teacher
VocabularyTeacher ==
    (1 :> "t1" @@ 2 :> "t1" @@ 3 :> "t1" @@ 4 :> "t1" @@ 5 :> "t1" @@ 6 :> "t2")

\* Vocabulary.id -> Vocabulary.word
VocabularyWord ==
    (1 :> "apple" @@ 2 :> "dog" @@ 3 :> "cat" @@ 4 :> "red" @@ 5 :> "blue" @@ 6 :> "green")

ClassRoomIds == DOMAIN ClassRoomTeacher
StudentIds == DOMAIN StudentClassRoom
CategoryIds == DOMAIN CategoryTeacher
VocabularyIds == DOMAIN VocabularyCategory

\* ids a request may name: the rows of the table and one id of no row
AbsentId == 9
StudentIdInputs == StudentIds \cup {AbsentId}
ClassIdInputs == ClassRoomIds \cup {AbsentId}
VocabIdInputs == VocabularyIds \cup {AbsentId}
\* request.query_params.get('category') is None when the parameter is absent
NoCategory == 0
CategoryInputs == CategoryIds \cup {AbsentId, NoCategory}
\* a request body field that is missing
Missing == -1

\* the workers that serve requests at the same time
Workers == {"w1", "w2"}

\* ------------------------------------------------------------------ state

VARIABLES
    sessions,       \* TestSession table: set of [id, student, category, total_questions, correct_answers]
    results,        \* Result table: bag of [session, vocabulary, is_correct]
    nextSessionId,  \* TestSession's auto-increment key
    nextResultId,   \* Result's auto-increment key
    response,       \* the request just served and its response, until it is returned
    prior,          \* history: the two tables as they were when that request arrived
    answered,       \* history: student -> bag of the answers [vocabulary, selected]
                    \* accepted (201) since the student's last clear
    pc,             \* worker -> the step its request is at (requests served at once)
    local           \* worker -> its request, its in-memory session, its response

tables == <<sessions, results, nextSessionId, nextResultId>>
workers == <<pc, local>>
vars == <<sessions, results, nextSessionId, nextResultId, response, prior, answered,
          pc, local>>

\* ----------------------------------------------------------------- queries

\* Student.objects.filter(id=student_id, class_room__teacher=request.user)
StudentOfTeacher(user, student_id) ==
    /\ student_id \in StudentIds
    /\ ClassRoomTeacher[StudentClassRoom[student_id]] = user

\* Vocabulary.objects.filter(teacher=request.user, category_id=category_id)
Vocabularies(user, category_id) ==
    {v \in VocabularyIds : VocabularyTeacher[v] = user /\ VocabularyCategory[v] = category_id}

\* the rows of a bag that are in keep, each as often as in the bag
BagFilter(B, keep) == [x \in (DOMAIN B) \cap keep |-> B[x]]

UsedVocabIdsCorrectOnly(ss, rs, student, category_id) ==
    {r.vocabulary : r \in
        {r \in BagToSet(rs) :
            /\ \E s \in ss : s.id = r.session /\ s.student = student
            /\ VocabularyCategory[r.vocabulary] = category_id
            /\ r.is_correct}}

\* Result.objects.filter(session__student=student, vocabulary__category_id=category_id)
\*       .values_list('vocabulary_id', flat=True)
UsedVocabIds(ss, rs, student, category_id) ==
    {r.vocabulary : r \in
        {r \in BagToSet(rs) :
            /\ \E s \in ss : s.id = r.session /\ s.student = student
            /\ VocabularyCategory[r.vocabulary] = category_id}}

RemainingVocabulariesUnfiltered(ss, rs, user, student, category_id) ==
    Vocabularies(user, category_id)

\* vocabularies.exclude(id__in=used_vocab_ids)
RemainingVocabularies(ss, rs, user, student, category_id) ==
    Vocabularies(user, category_id) \ UsedVocabIds(ss, rs, student, category_id)

\* TestSession.percentage, in hundredths: round((correct / total) * 100, 2)
\* (round half to even)
Percentage(total_questions, correct_answers) ==
    IF total_questions = 0 THEN 0
    ELSE LET n == correct_answers * 10000
             q == n \div total_questions
             r == n % total_questions
         IN  IF 2 * r > total_questions THEN q + 1
             ELSE IF 2 * r < total_questions THEN q
             ELSE IF q % 2 = 0 THEN q ELSE q + 1

\* ------------------------------------------------------------------- Init

NoResponse == [op |-> "none"]

\* a request with its response
Reply(req, out) == req @@ [out |-> out]

Init ==
    /\ sessions = {}
    /\ results = EmptyBag
    /\ nextSessionId = 1
    /\ nextResultId = 1
    /\ response = NoResponse
    /\ prior = NoResponse
    /\ answered = [s \in StudentIds |-> EmptyBag]
    /\ pc = [w \in Workers |-> "idle"]
    /\ local = [w \in Workers |-> NoResponse]

\* a request is served when no response is waiting to be returned; the
\* history keeps the tables it found
Serve ==
    /\ response = NoResponse
    /\ prior' = [sessions |-> sessions, results |-> results]
    /\ UNCHANGED workers

\* return Response(...): the response leaves, the next request can be served
Return ==
    /\ response # NoResponse
    /\ response' = NoResponse
    /\ prior' = NoResponse
    /\ UNCHANGED <<tables, answered, workers>>

RejectedAfterGetOrCreate(req, rej) ==
    /\ response' = Reply(req, rej)
    /\ IF /\ req.op = "submit"
          /\ req.student_id \in StudentIds
          /\ req.vocab_id \in DOMAIN VocabularyCategory
          /\ \A s \in sessions : ~(/\ s.student = req.student_id
                                    /\ s.category = VocabularyCategory[req.vocab_id])
       THEN /\ sessions' = sessions \cup
                    {[id |-> nextSessionId, student |-> req.student_id,
                      category |-> VocabularyCategory[req.vocab_id],
                      total_questions |-> 0, correct_answers |-> 0]}
            /\ nextSessionId' = nextSessionId + 1
            /\ UNCHANGED <<results, nextResultId, answered>>
       ELSE UNCHANGED <<tables, answered>>

\* get_object_or_404 raises Http404, is_valid(raise_exception=True) raises
\* ValidationError: the view ends there, before its first write
Rejected(req, rej) ==
    /\ response' = Reply(req, rej)
    /\ UNCHANGED <<tables, answered>>

\* ------------------------------------------------ get_random_test_question

\* the orderings random.shuffle can leave a list of three in
Shuffles(a, b, c) ==
    {<<a, b, c>>, <<a, c, b>>, <<b, a, c>>, <<b, c, a>>, <<c, a, b>>, <<c, b, a>>}

QuestionsRepeating(remaining, vocabularies) ==
    UNION {UNION {UNION {
        {[vocab_id |-> correct, word |-> VocabularyWord[correct],
          options |-> [i \in 1..3 |-> [id |-> o[i], word |-> VocabularyWord[o[i]]]]] :
            o \in Shuffles(correct, w1, w2)} :
        w2 \in vocabularies \ {w1}} :
        w1 \in vocabularies} :
        correct \in remaining}

\* every question the view can build: random.choice over the remaining
\* vocabularies, random.sample of 2 over the others, random.shuffle
Questions(remaining, vocabularies) ==
    UNION {UNION {UNION {
        {[vocab_id |-> correct, word |-> VocabularyWord[correct],
          options |-> [i \in 1..3 |-> [id |-> o[i], word |-> VocabularyWord[o[i]]]]] :
            o \in Shuffles(correct, w1, w2)} :
        w2 \in (vocabularies \ {correct}) \ {w1}} :
        w1 \in vocabularies \ {correct}} :
        correct \in remaining}

TooFewBelowTwo(vocabularies) == Cardinality(vocabularies) < 2

\* vocabularies.count() < 3
TooFew(vocabularies) == Cardinality(vocabularies) < 3

SelectOutcomesCountingUnseen(ss, rs, user, student_id, category_id) ==
    IF ~StudentOfTeacher(user, student_id)
    THEN {[status |-> 404, kind |-> "not_found"]}
    ELSE IF category_id = NoCategory
    THEN {[status |-> 400, kind |-> "category_required"]}
    ELSE LET remaining == RemainingVocabularies(ss, rs, user, student_id, category_id)
         IN  IF remaining = {} /\ ~TooFew(Vocabularies(user, category_id))
             THEN {[status |-> 200, kind |-> "finished", finished |-> TRUE]}
             ELSE IF TooFew(remaining)
             THEN {[status |-> 400, kind |-> "insufficient_pool"]}
             ELSE {[status |-> 200, kind |-> "question", finished |-> FALSE, question |-> q] :
                     q \in Questions(remaining, Vocabularies(user, category_id))}

\* the outcomes of one call: status and body of every response it can give
\* (random.sample raises ValueError when fewer than 2 others are there)
SelectOutcomes(ss, rs, user, student_id, category_id) ==
    IF ~StudentOfTeacher(user, student_id)
    THEN {[status |-> 404, kind |-> "not_found"]}
    ELSE IF category_id = NoCategory
    THEN {[status |-> 400, kind |-> "category_required"]}
    ELSE IF TooFew(Vocabularies(user, category_id))
    THEN {[status |-> 400, kind |-> "insufficient_pool"]}
    ELSE LET remaining == RemainingVocabularies(ss, rs, user, student_id, category_id)
         IN  IF remaining = {}
             THEN {[status |-> 200, kind |-> "finished", finished |-> TRUE]}
             ELSE IF Cardinality(Vocabularies(user, category_id)) < 3
             THEN {[status |-> 500, kind |-> "server_error"]}
             ELSE {[status |-> 200, kind |-> "question", finished |-> FALSE, question |-> q] :
                     q \in Questions(remaining, Vocabularies(user, category_id))}

SelectQuestionOpeningSession(user, student_id, category_id) ==
    /\ Serve
    /\ \E out \in SelectOutcomes(sessions, results, user, student_id, category_id) :
         /\ response' = Reply([op |-> "select", user |-> user, student_id |-> student_id,
                                category_id |-> category_id], out)
         /\ IF out.kind = "question"
                /\ \A s \in sessions : ~(s.student = student_id /\ s.category = category_id)
            THEN /\ sessions' = sessions \cup
                         {[id |-> nextSessionId, student |-> student_id,
                           category |-> category_id,
                           total_questions |-> 0, correct_answers |-> 0]}
                 /\ nextSessionId' = nextSessionId + 1
                 /\ UNCHANGED <<results, nextResultId>>
            ELSE UNCHANGED tables
    /\ UNCHANGED answered

\* the whole view: it reads the tables and writes none
SelectQuestion(user, student_id, category_id) ==
    /\ Serve
    /\ \E out \in SelectOutcomes(sessions, results, user, student_id, category_id) :
         response' = Reply([op |-> "select", user |-> user, student_id |-> student_id,
                            category_id |-> category_id], out)
    /\ UNCHANGED <<tables, answered>>

\* ------------------------------------------------------ submit_test_answer

\* the bodies a request may carry: for each vocab_id (of a row or of none)
\* that id or another one as the selected option, and a body lacking either
\* field
AnswerInputs ==
    UNION {{[vocab_id |-> v, selected_option_id |-> o] : o \in {v, (v % 3) + 1}} :
            v \in VocabIdInputs}
    \cup {[vocab_id |-> Missing, selected_option_id |-> 1],
          [vocab_id |-> 1, selected_option_id |-> Missing]}

\* TestAnswerSerializer.is_valid: both fields required, vocab_id must name a
\* Vocabulary row (of any teacher)
SerializerValid(vocab_id, selected_option_id) ==
    /\ vocab_id # Missing
    /\ selected_option_id # Missing
    /\ vocab_id \in VocabularyIds

\* Vocabulary.objects.filter(id=vocab_id, teacher=request.user)
VocabularyOfTeacher(user, vocab_id) ==
    /\ vocab_id \in VocabularyIds
    /\ VocabularyTeacher[vocab_id] = user

SessionLookupAnyCategory(ss, student, category) ==
    {s \in ss : s.student = student}

\* the lookup of get_or_create: TestSession.objects.get(student=, category=)
SessionLookup(ss, student, category) ==
    {s \in ss : s.student = student /\ s.category = category}

NewSessionFirstCategory(id, student, category) ==
    [id |-> id, student |-> student, category |-> 1,
     total_questions |-> 0, correct_answers |-> 0]

\* the row get_or_create inserts when the lookup finds none
NewSession(id, student, category) ==
    [id |-> id, student |-> student, category |-> category,
     total_questions |-> 0, correct_answers |-> 0]

CreateResultOnce(rs, session, vocab_id, is_correct) ==
    LET row == [session |-> session.id, vocabulary |-> vocab_id,
                is_correct |-> is_correct]
    IN  IF row \in DOMAIN rs THEN rs ELSE rs (+) SetToBag({row})

\* Result.objects.create(session=session, vocabulary=vocab, is_correct=is_correct)
CreateResult(rs, session, vocab_id, is_correct) ==
    rs (+) SetToBag({[session |-> session.id, vocabulary |-> vocab_id,
                      is_correct |-> is_correct]})

ScoredAlwaysCorrect(session, is_correct) ==
    [session EXCEPT !.total_questions = @ + 1, !.correct_answers = @ + 1]

\* session.total_questions += 1; if is_correct: session.correct_answers += 1
Scored(session, is_correct) ==
    [session EXCEPT !.total_questions = @ + 1,
                    !.correct_answers = IF is_correct THEN @ + 1 ELSE @]

\* session.save(): UPDATE of the row with this key, INSERT when there is none
SaveSession(ss, session) ==
    {s \in ss : s.id # session.id} \cup {session}

\* the 201 body
AnswerBody(vocab_id, is_correct, result_id, session) ==
    [status |-> 201, kind |-> "answer",
     correct |-> is_correct,
     correct_word |-> IF is_correct THEN VocabularyWord[vocab_id] ELSE "None",
     result_id |-> result_id,
     total_questions |-> session.total_questions,
     correct_answers |-> session.correct_answers,
     percentage |-> Percentage(session.total_questions, session.correct_answers)]

SubmitRequest(user, student_id, vocab_id, selected_option_id) ==
    [op |-> "submit", user |-> user, student_id |-> student_id,
     vocab_id |-> vocab_id, selected_option_id |-> selected_option_id]

\* the response of a request that ends before the first write
SubmitRejection(user, student_id, vocab_id, selected_option_id) ==
    IF ~StudentOfTeacher(user, student_id)
    THEN [status |-> 404, kind |-> "not_found"]
    ELSE IF ~SerializerValid(vocab_id, selected_option_id)
    THEN [status |-> 400, kind |-> "validation_error"]
    ELSE IF ~VocabularyOfTeacher(user, vocab_id)
    THEN [status |-> 404, kind |-> "not_found"]
    ELSE [status |-> 0, kind |-> "accepted"]

\* the history of accepted answers grows by this request's answer
Accept(student, vocab_id, selected_option_id) ==
    answered' = [answered EXCEPT ![student] =
                    @ (+) SetToBag({[vocabulary |-> vocab_id,
                                     selected |-> selected_option_id]})]

\* the whole handler, run without another request in between
SubmitAnswer(user, student_id, vocab_id, selected_option_id) ==
    LET req == SubmitRequest(user, student_id, vocab_id, selected_option_id)
        rej == SubmitRejection(user, student_id, vocab_id, selected_option_id)
        category == VocabularyCategory[vocab_id]
        is_correct == (vocab_id = selected_option_id)
        found == SessionLookup(sessions, student_id, category)
        session == IF found = {}
                   THEN NewSession(nextSessionId, student_id, category)
                   ELSE CHOOSE s \in found : TRUE
        saved == Scored(session, is_correct)
    IN  /\ Serve
        /\ \/ /\ rej.kind # "accepted"
              /\ Rejected(req, rej)
           \/ /\ rej.kind = "accepted"
              /\ Cardinality(found) > 1     \* get() raises MultipleObjectsReturned
              /\ response' = Reply(req, [status |-> 500, kind |-> "server_error"])
              /\ UNCHANGED <<tables, answered>>
           \/ /\ rej.kind = "accepted"
              /\ Cardinality(found) <= 1
              /\ nextResultId <= MaxResults
              /\ nextSessionId' = IF found = {} THEN nextSessionId + 1 ELSE nextSessionId
              /\ results' = CreateResult(results, session, vocab_id, is_correct)
              /\ nextResultId' = nextResultId + 1
              /\ sessions' = SaveSession(sessions \cup {session}, saved)
              /\ response' = Reply(req, AnswerBody(vocab_id, is_correct, nextResultId, saved))
              /\ Accept(student_id, vocab_id, selected_option_id)

\* --------------------------------------------------- clear_student_results

StudentSessionsLatestOnly(ss, student) ==
    {s \in ss : /\ s.student = student
                /\ \A o \in ss : o.student = student => o.id <= s.id}

\* TestSession.objects.filter(student=student)
StudentSessions(ss, student) == {s \in ss : s.student = student}

\* sessions.delete(): the student's TestSession rows go, and with them
\* (Result.session, on_delete=CASCADE) the Result rows that reference them
SessionsAfterDelete(ss, student) == ss \ StudentSessions(ss, student)

ResultsAfterDeleteNoCascade(ss, rs, student) == rs

ResultsAfterDelete(ss, rs, student) ==
    LET gone == {s.id : s \in StudentSessions(ss, student)}
    IN  BagFilter(rs, {r \in DOMAIN rs : r.session \notin gone})

ClearResults(user, student_id) ==
    LET req == [op |-> "clear", user |-> user, student_id |-> student_id]
    IN  /\ Serve
        /\ \/ /\ ~StudentOfTeacher(user, student_id)
              /\ Rejected(req, [status |-> 404, kind |-> "not_found"])
           \/ /\ StudentOfTeacher(user, student_id)
              /\ sessions' = SessionsAfterDelete(sessions, student_id)
              /\ results' = ResultsAfterDelete(sessions, results, student_id)
              /\ response' = Reply(req, [status |-> 200, kind |-> "cleared",
                                         body |-> [message |-> "Natija o'chirildi.",
                                                   student_id |-> student_id]])
              /\ answered' = [answered EXCEPT ![student_id] = EmptyBag]
              /\ UNCHANGED <<nextSessionId, nextResultId>>

\* ---------------------------------------------------- get_students_results

\* ClassRoom.objects.filter(id=class_id, teacher=request.user)
ClassRoomOfTeacher(user, class_id) ==
    /\ class_id \in ClassRoomIds
    /\ ClassRoomTeacher[class_id] = user

\* the ids of a set in a list, lowest first
RECURSIVE Ascending(_)
Ascending(S) ==
    IF S = {} THEN <<>>
    ELSE LET m == CHOOSE x \in S : \A y \in S : x <= y
         IN  <<m>> \o Ascending(S \ {m})

\* class_room.students.all(), in Student's ordering (full_name; the names
\* of StudentName ascend with the ids)
StudentsOfClassRoom(class_id) ==
    Ascending({s \in StudentIds : StudentClassRoom[s] = class_id})

SessionsOfClassRoomAnyCategory(ss, class_id, category_id) ==
    {s \in ss : StudentClassRoom[s.student] = class_id}

\* TestSession.objects.filter(student__class_room=class_room, category_id=category_id)
SessionsOfClassRoom(ss, class_id, category_id) ==
    {s \in ss : StudentClassRoom[s.student] = class_id /\ s.category = category_id}

\* one student's entry, from the session found for the student or from none
\* (None: the empty set)
StudentEntry(student, found) ==
    [id |-> student, full_name |-> StudentName[student],
     total_tests |-> IF found = {} THEN 0
                     ELSE (CHOOSE s \in found : TRUE).total_questions,
     correct_answers |-> IF found = {} THEN 0
                         ELSE (CHOOSE s \in found : TRUE).correct_answers,
     incorrect_answers |-> IF found = {} THEN 0
                           ELSE LET s == CHOOSE s \in found : TRUE
                                IN  s.total_questions - s.correct_answers,
     accuracy_percentage |-> IF found = {} THEN 0
                             ELSE LET s == CHOOSE s \in found : TRUE
                                  IN  Percentage(s.total_questions, s.correct_answers)]

\* next((s for s in sessions if s.student.id == student.id), None): the
\* first match in the order of a queryset that states no order, so any match
StudentEntries(student, ss) ==
    LET mine == {s \in ss : s.student = student}
    IN  IF mine = {} THEN {StudentEntry(student, {})}
        ELSE {StudentEntry(student, {s}) : s \in mine}

\* the lists student_data can end as
RECURSIVE StudentData(_, _)
StudentData(students, ss) ==
    IF students = <<>> THEN {<<>>}
    ELSE {<<e>> \o rest : e \in StudentEntries(Head(students), ss),
                          rest \in StudentData(Tail(students), ss)}

SummaryOutcomes(ss, user, class_id, category_id) ==
    IF category_id = NoCategory
    THEN {[status |-> 400, kind |-> "category_required"]}
    ELSE IF ~ClassRoomOfTeacher(user, class_id)
    THEN {[status |-> 404, kind |-> "not_found"]}
    ELSE {[status |-> 200, kind |-> "summary", category_id |-> category_id,
           students |-> d] :
            d \in StudentData(StudentsOfClassRoom(class_id),
                              SessionsOfClassRoom(ss, class_id, category_id))}

SummarizeClass(user, class_id, category_id) ==
    /\ Serve
    /\ \E out \in SummaryOutcomes(sessions, user, class_id, category_id) :
         response' = Reply([op |-> "summary", user |-> user, class_id |-> class_id,
                            category_id |-> category_id], out)
    /\ UNCHANGED <<tables, answered>>

\* ------------------------------------------------------------------- Next

Next ==
    \/ \E u \in Users, s \in StudentIdInputs, c \in CategoryInputs : SelectQuestion(u, s, c)
    \/ \E u \in Users, s \in StudentIdInputs, a \in AnswerInputs :
         SubmitAnswer(u, s, a.vocab_id, a.selected_option_id)
    \/ \E u \in Users, s \in StudentIdInputs : ClearResults(u, s)
    \/ \E u \in Users, k \in ClassIdInputs, c \in CategoryInputs : SummarizeClass(u, k, c)
    \/ Return

Spec == Init /\ [][Next]_vars


\* ------------------------------------- submit_test_answer, step by step
\* Two workers serve one request each at the same time.  The view runs in
\* autocommit (no transaction.atomic, no select_for_update), so each query
\* of submit_test_answer is a step of its own, and TestSession states no
\* unique constraint on (student, category).

\* the request arrives: the three checks that read only the fixed tables
Begin(w, user, student_id, vocab_id, selected_option_id) ==
    LET req == SubmitRequest(user, student_id, vocab_id, selected_option_id)
        rej == SubmitRejection(user, student_id, vocab_id, selected_option_id)
    IN  /\ pc[w] = "idle"
        /\ IF rej.kind # "accepted"
           THEN /\ pc' = [pc EXCEPT ![w] = "done"]
                /\ local' = [local EXCEPT ![w] = Reply(req, rej)]
           ELSE /\ pc' = [pc EXCEPT ![w] = "lookup"]
                /\ local' = [local EXCEPT ![w] =
                                req @@ [category |-> VocabularyCategory[vocab_id],
                                        is_correct |-> (vocab_id = selected_option_id)]]
        /\ UNCHANGED <<tables, response, prior, answered>>

\* get_or_create: the SELECT
Lookup(w) ==
    LET found == SessionLookup(sessions, local[w].student_id, local[w].category)
    IN  /\ pc[w] = "lookup"
        /\ IF found = {}
           THEN /\ pc' = [pc EXCEPT ![w] = "insert"]
                /\ UNCHANGED local
           ELSE IF Cardinality(found) = 1
           THEN /\ pc' = [pc EXCEPT ![w] = "create_result"]
                /\ local' = [local EXCEPT ![w] = @ @@ [session |-> CHOOSE s \in found : TRUE]]
           ELSE \* MultipleObjectsReturned
                /\ pc' = [pc EXCEPT ![w] = "done"]
                /\ local' = [local EXCEPT ![w] =
                                Reply(@, [status |-> 500, kind |-> "server_error"])]
        /\ UNCHANGED <<tables, response, prior, answered>>

\* get_or_create: the INSERT after a SELECT that found no row
Insert(w) ==
    LET session == NewSession(nextSessionId, local[w].student_id, local[w].category)
    IN  /\ pc[w] = "insert"
        /\ sessions' = sessions \cup {session}
        /\ nextSessionId' = nextSessionId + 1
        /\ local' = [local EXCEPT ![w] = @ @@ [session |-> session]]
        /\ pc' = [pc EXCEPT ![w] = "create_result"]
        /\ UNCHANGED <<results, nextResultId, response, prior, answered>>

\* Result.objects.create: an IntegrityError when the session row is gone
InsertResult(w) ==
    /\ pc[w] = "create_result"
    /\ IF \E s \in sessions : s.id = local[w].session.id
       THEN /\ results' = CreateResult(results, local[w].session, local[w].vocab_id,
                                       local[w].is_correct)
            /\ nextResultId' = nextResultId + 1
            /\ local' = [local EXCEPT ![w] = @ @@ [result_id |-> nextResultId]]
            /\ pc' = [pc EXCEPT ![w] = "save"]
       ELSE /\ pc' = [pc EXCEPT ![w] = "done"]
            /\ local' = [local EXCEPT ![w] =
                            Reply(@, [status |-> 500, kind |-> "server_error"])]
            /\ UNCHANGED <<results, nextResultId>>
    /\ UNCHANGED <<sessions, nextSessionId, response, prior, answered>>

\* the increments on the in-memory session, session.save() and the response
Save(w) ==
    LET saved == Scored(local[w].session, local[w].is_correct)
    IN  /\ pc[w] = "save"
        /\ sessions' = SaveSession(sessions, saved)
        /\ local' = [local EXCEPT ![w] =
                        Reply(@, AnswerBody(local[w].vocab_id, local[w].is_correct,
                                            local[w].result_id, saved))]
        /\ pc' = [pc EXCEPT ![w] = "done"]
        /\ Accept(local[w].student_id, local[w].vocab_id, local[w].selected_option_id)
        /\ UNCHANGED <<results, nextSessionId, nextResultId, response, prior>>

\* clear_student_results served by a worker (sessions.delete() is one
\* transaction)
Clear(w, user, student_id) ==
    LET req == [op |-> "clear", user |-> user, student_id |-> student_id]
    IN  /\ pc[w] = "idle"
        /\ pc' = [pc EXCEPT ![w] = "done"]
        /\ IF ~StudentOfTeacher(user, student_id)
           THEN /\ local' = [local EXCEPT ![w] =
                                Reply(req, [status |-> 404, kind |-> "not_found"])]
                /\ UNCHANGED <<sessions, results, answered>>
           ELSE /\ sessions' = SessionsAfterDelete(sessions, student_id)
                /\ results' = ResultsAfterDelete(sessions, results, student_id)
                /\ local' = [local EXCEPT ![w] =
                                Reply(req, [status |-> 200, kind |-> "cleared",
                                            body |-> [message |-> "Natija o'chirildi.",
                                                      student_id |-> student_id]])]
                /\ answered' = [answered EXCEPT ![student_id] = EmptyBag]
        /\ UNCHANGED <<nextSessionId, nextResultId, response, prior>>

ConcNext ==
    \/ \E w \in Workers, u \in Users, s \in StudentIdInputs, a \in AnswerInputs :
         Begin(w, u, s, a.vocab_id, a.selected_option_id)
    \/ \E w \in Workers : Lookup(w)
    \/ \E w \in Workers : Insert(w)
    \/ \E w \in Workers : InsertResult(w)
    \/ \E w \in Workers : Save(w)
    \/ \E w \in Workers, u \in Users, s \in StudentIdInputs : Clear(w, u, s)

ConcSpec == Init /\ [][ConcNext]_vars

\* ================================================================== claims

\* the pool of the glossary: the vocabulary items of a teacher in a category
Pool(user, category_id) ==
    {v \in DOMAIN VocabularyWord :
        VocabularyCategory[v] = category_id /\ VocabularyTeacher[v] = user}

\* the TestSession rows of a student
SessionsOfStudent(ss, student) == {s \in ss : s.student = student}

\* what the history says of a student: the ids answered, and for a category
\* the number of answers and of those that named the submitted id itself
AnsweredIds(student) == {a.vocabulary : a \in BagToSet(answered[student])}

AnswersIn(student, category_id) ==
    LET in == {a \in DOMAIN answered[student] :
                  VocabularyCategory[a.vocabulary] = category_id}
    IN  BagCardinality(BagFilter(answered[student], in))

RightAnswersIn(student, category_id) ==
    LET in == {a \in DOMAIN answered[student] :
                  /\ VocabularyCategory[a.vocabulary] = category_id
                  /\ a.vocabulary = a.selected}
    IN  BagCardinality(BagFilter(answered[student], in))

\* p is k out of n in hundredths of a percent, rounded to the nearest: 0 of
\* nothing is 0
IsPercentage(p, n, k) ==
    IF n = 0 THEN p = 0
    ELSE 2 * p * n - 20000 * k <= n /\ 20000 * k - 2 * p * n <= n

IsQuestion == response.op = "select" /\ response.out.kind = "question"

\* C1: a question's correct vocabulary id is never one the student has
\* answered since the last clear: it is a member of the pool minus the
\* answered ids.
C1_NoRepeat ==
    IsQuestion =>
        response.out.question.vocab_id \in
            Pool(response.user, response.category_id)
                \ AnsweredIds(response.student_id)

\* a question asked when two items of the pool of three were answered
C1_Witness ==
    /\ IsQuestion
    /\ Cardinality(AnsweredIds(response.student_id)
                     \cap Pool(response.user, response.category_id)) = 2

\* a Result row of the student for the vocabulary id exists
HasResult(ss, rs, student, vocab_id) ==
    \E r \in BagToSet(rs) :
        /\ r.vocabulary = vocab_id
        /\ \E s \in ss : s.id = r.session /\ s.student = student

AllRecorded(ss, rs, student, pool) ==
    \A v \in pool : HasResult(ss, rs, student, v)

ClearedFor(student) ==
    /\ response.op = "clear"
    /\ response.out.kind = "cleared"
    /\ response.student_id = student

\* C2: once every id of a pool of three or more has a Result of the student,
\* SelectQuestion answers finished, without a question, and the pool stays
\* fully recorded through every request but a clear of that student.
C2_Exhaustion ==
    \A u \in Users, s \in StudentIds, c \in CategoryIds :
        LET pool == Pool(u, c)
        IN  (StudentOfTeacher(u, s) /\ Cardinality(pool) >= 3) =>
              /\ ( /\ response.op = "select"
                   /\ response.user = u
                   /\ response.student_id = s
                   /\ response.category_id = c
                   /\ AllRecorded(sessions, results, s, pool) )
                 => /\ response.out.kind = "finished"
                    /\ response.out.finished = TRUE
                    /\ "question" \notin DOMAIN response.out
              /\ ( /\ response # NoResponse
                   /\ AllRecorded(prior.sessions, prior.results, s, pool)
                   /\ ~ClearedFor(s) )
                 => AllRecorded(sessions, results, s, pool)

\* the finished answer to a student whose three answers cover the pool
C2_Witness ==
    /\ response.op = "select"
    /\ response.out.kind = "finished"
    /\ AnswersIn(response.student_id, response.category_id) = 3

\* the questions a call may return are exactly those whose correct id is any
\* member of the pool
FreshQuestions(user, student, category_id) ==
    LET outs == SelectOutcomes(sessions, results, user, student, category_id)
    IN  /\ \A o \in outs : o.kind = "question"
        /\ {o.question.vocab_id : o \in outs} = Pool(user, category_id)

\* C3: right after ClearResults(student) the remaining set of every category
\* is the full pool, and where the pool has three or more SelectQuestion
\* returns a question, whose correct id may be any member of the pool.
C3_ClearRestores ==
    (response.op = "clear" /\ response.out.kind = "cleared") =>
        \A c \in CategoryIds :
            LET u == response.user
                s == response.student_id
            IN  /\ RemainingVocabularies(sessions, results, u, s, c) = Pool(u, c)
                /\ Cardinality(Pool(u, c)) >= 3 => FreshQuestions(u, s, c)

\* a clear of a student who had exhausted a category
C3_Witness ==
    /\ response.op = "clear"
    /\ response.out.kind = "cleared"
    /\ \E c \in CategoryIds :
         /\ Cardinality(Pool(response.user, c)) >= 3
         /\ AllRecorded(prior.sessions, prior.results, response.student_id,
                        Pool(response.user, c))

\* C4: a question has exactly 3 options, pairwise distinct by id, all of the
\* requested category's pool, and the correct id is among them exactly once.
C4_OptionSet ==
    IsQuestion =>
        LET o == response.out.question.options
            pool == Pool(response.user, response.category_id)
        IN  /\ DOMAIN o = 1..3
            /\ \A i, j \in 1..3 : i # j => o[i].id # o[j].id
            /\ \A i \in 1..3 : o[i].id \in pool
            /\ Cardinality({i \in 1..3 : o[i].id = response.out.question.vocab_id}) = 1

\* a question whose two other options were both answered before, the correct
\* id not being the first option
C4_Witness ==
    /\ IsQuestion
    /\ response.out.question.options[1].id # response.out.question.vocab_id
    /\ \A i \in 1..3 :
         \/ response.out.question.options[i].id = response.out.question.vocab_id
         \/ response.out.question.options[i].id \in AnsweredIds(response.student_id)

IsAnswer == response.op = "submit" /\ response.out.kind = "answer"

\* C5: with N answers accepted for a (student, category) since the student's
\* last clear, k of them naming the submitted id as the selected option, the
\* pair's session holds total_questions = N and correct_answers = k, and the
\* N-th response reports N, k and the percentage round(100 * k / N, 2).
C5_CounterConsistency ==
    /\ \A s \in sessions :
         /\ s.total_questions = AnswersIn(s.student, s.category)
         /\ s.correct_answers = RightAnswersIn(s.student, s.category)
    /\ \A st \in StudentIds, c \in CategoryIds :
         AnswersIn(st, c) > 0 => Cardinality(SessionLookup(sessions, st, c)) = 1
    /\ IsAnswer =>
         LET c == VocabularyCategory[response.vocab_id]
             n == AnswersIn(response.student_id, c)
             k == RightAnswersIn(response.student_id, c)
         IN  /\ response.out.correct = (response.vocab_id = response.selected_option_id)
             /\ response.out.total_questions = n
             /\ response.out.correct_answers = k
             /\ IsPercentage(response.out.percentage, n, k)

\* the third answer of a pair, one of three right, the same id answered twice
C5_Witness ==
    /\ IsAnswer
    /\ response.out.total_questions = 3
    /\ response.out.correct_answers = 1
    /\ response.out.percentage = 3333
    /\ \E a \in BagToSet(answered[response.student_id]) :
         CopiesIn(a, answered[response.student_id]) >= 2

\* C8: with fewer than 3 items of the requesting teacher in the requested
\* category SelectQuestion returns neither a question nor finished, and for
\* a student of the teacher and a named category it returns the
\* insufficient-pool error, whatever the student has answered; with 3 or more
\* it never returns that error.
C8_InsufficientPool ==
    response.op = "select" =>
        LET n == Cardinality(Pool(response.user, response.category_id))
        IN  /\ n < 3 => response.out.kind \notin {"question", "finished"}
            /\ ( /\ n < 3
                 /\ StudentOfTeacher(response.user, response.student_id)
                 /\ response.category_id # NoCategory )
               => response.out.kind = "insufficient_pool" /\ response.out.status = 400
            /\ n >= 3 => response.out.kind # "insufficient_pool"

\* the error for a pool of two, both items of which the student has answered
C8_Witness ==
    /\ response.op = "select"
    /\ response.out.kind = "insufficient_pool"
    /\ Cardinality(Pool(response.user, response.category_id)) = 2
    /\ Pool(response.user, response.category_id)
         \subseteq AnsweredIds(response.student_id)

IsSummary == response.op = "summary" /\ response.out.kind = "summary"

\* C9: SummarizeClass returns one entry per student of the classroom, in all
\* as many as the classroom has students; a student with a session for the
\* category reports its total, correct, total - correct and percentage, a
\* student with none reports 0 for all four.
C9_RosterComplete ==
    IsSummary =>
        LET d == response.out.students
            roster == {s \in StudentIds : StudentClassRoom[s] = response.class_id}
        IN  /\ Len(d) = Cardinality(roster)
            /\ {d[i].id : i \in 1..Len(d)} = roster
            /\ \A i \in 1..Len(d) :
                 LET mine == SessionLookup(sessions, d[i].id, response.category_id)
                 IN  IF mine = {}
                     THEN /\ d[i].total_tests = 0
                          /\ d[i].correct_answers = 0
                          /\ d[i].incorrect_answers = 0
                          /\ d[i].accuracy_percentage = 0
                     ELSE \E s \in mine :
                          /\ d[i].total_tests = s.total_questions
                          /\ d[i].correct_answers = s.correct_answers
                          /\ d[i].incorrect_answers = s.total_questions - s.correct_answers
                          /\ IsPercentage(d[i].accuracy_percentage,
                                          s.total_questions, s.correct_answers)

\* a summary of two students, one with a session of two answers, one right,
\* in the category and the other with a session in another category only
C9_Witness ==
    /\ IsSummary
    /\ Len(response.out.students) = 2
    /\ \E i, j \in 1..2 :
         /\ response.out.students[i].total_tests = 2
         /\ response.out.students[i].incorrect_answers = 1
         /\ response.out.students[i].accuracy_percentage = 5000
         /\ response.out.students[j].total_tests = 0
         /\ SessionsOfStudent(sessions, response.out.students[j].id) # {}

\* C10: ClearResults returns the count of the sessions it deleted; a second
\* call in a row (the student has no session left) returns 0 and leaves the
\* tables as they are.
C10_ClearCount ==
    (response.op = "clear" /\ response.out.kind = "cleared") =>
        /\ "count" \in DOMAIN response.out.body
        /\ response.out.body.count =
             Cardinality(SessionsOfStudent(prior.sessions, response.student_id))
        /\ SessionsOfStudent(prior.sessions, response.student_id) = {}
             => /\ response.out.body.count = 0
                /\ sessions = prior.sessions
                /\ results = prior.results

\* a request that ended in one of the errors of the contract
IsRejected ==
    /\ response.op \in {"submit", "clear"}
    /\ response.out.kind \in {"not_found", "validation_error"}

\* C11: a SubmitAnswer that fails (student not of the teacher, invalid
\* payload, vocabulary absent or of another teacher) and a ClearResults that
\* fails leave the TestSession rows, their counters and the Result rows as
\* they were when the request arrived.
C11_ErrorsChangeNothing ==
    IsRejected => /\ sessions = prior.sessions
                  /\ results = prior.results

\* a submit naming another teacher's vocabulary item, refused for a student
\* who has a session and a Result
C11_Witness ==
    /\ IsRejected
    /\ response.op = "submit"
    /\ response.student_id \in StudentIds
    /\ ClassRoomTeacher[StudentClassRoom[response.student_id]] = response.user
    /\ response.vocab_id \in DOMAIN VocabularyTeacher
    /\ VocabularyTeacher[response.vocab_id] # response.user
    /\ SessionsOfStudent(sessions, response.student_id) # {}
    /\ results # EmptyBag

\* the request names a student of another teacher
OthersStudent ==
    /\ response.student_id \in StudentIds
    /\ ClassRoomTeacher[StudentClassRoom[response.student_id]] # response.user

\* C12: the response to a request that names a student, a category or a
\* vocabulary item of another teacher is the response the same request gets,
\* on the same tables, when it names an id of no row instead.
C12_OwnershipAsNotFound ==
    /\ (response.op = "select" /\ OthersStudent) =>
          response.out \in SelectOutcomes(prior.sessions, prior.results, response.user,
                                          AbsentId, response.category_id)
    /\ ( /\ response.op = "select"
         /\ response.category_id \in CategoryIds
         /\ CategoryTeacher[response.category_id] # response.user ) =>
          response.out \in SelectOutcomes(prior.sessions, prior.results, response.user,
                                          response.student_id, AbsentId)
    /\ (response.op = "submit" /\ OthersStudent) =>
          response.out = SubmitRejection(response.user, AbsentId, response.vocab_id,
                                         response.selected_option_id)
    /\ ( /\ response.op = "submit"
         /\ response.vocab_id \in DOMAIN VocabularyTeacher
         /\ VocabularyTeacher[response.vocab_id] # response.user ) =>
          response.out = SubmitRejection(response.user, response.student_id, AbsentId,
                                         response.selected_option_id)
    /\ (response.op = "clear" /\ OthersStudent) =>
          response.out = [status |-> 404, kind |-> "not_found"]

\* C13: whatever SelectQuestion returns (a question, finished, the
\* insufficient-pool error, not found, the missing-category error), the
\* TestSession rows with their counters and the Result rows are those the
\* request found; no session is created.
C13_SelectReadOnly ==
    response.op = "select" =>
        /\ sessions = prior.sessions
        /\ results = prior.results

\* a first question to a student who has no session for the category yet,
\* while the tables hold rows of the other student
C13_Witness ==
    /\ IsQuestion
    /\ \A s \in sessions : ~(/\ s.student = response.student_id
                              /\ s.category = response.category_id)
    /\ sessions # {}
    /\ results # EmptyBag

\* the Result rows that reference one of the sessions
ResultsOf(rs, ss) ==
    LET ids == {s.id : s \in ss}
    IN  [r \in {x \in DOMAIN rs : x.session \in ids} |-> rs[r]]

\* C15: right after ClearResults(student) the student has no TestSession in
\* any category and no Result row references a session the student had,
\* while the TestSession rows of every other student and the Result rows
\* that reference them are exactly those the request found.
C15_ClearCascadeAndFrame ==
    (response.op = "clear" /\ response.out.kind = "cleared") =>
        LET mine == SessionsOfStudent(prior.sessions, response.student_id)
            others == prior.sessions \ mine
        IN  /\ SessionsOfStudent(sessions, response.student_id) = {}
            /\ ResultsOf(results, mine) = EmptyBag
            /\ \A r \in DOMAIN results : \E s \in sessions : s.id = r.session
            /\ sessions = others
            /\ ResultsOf(results, others) = ResultsOf(prior.results, others)

\* a clear of a student who had a session with a Result in each of two
\* categories, the other student keeping a session and its Result
C15_Witness ==
    /\ response.op = "clear"
    /\ response.out.kind = "cleared"
    /\ Cardinality(SessionsOfStudent(prior.sessions, response.student_id)) = 2
    /\ BagCardinality(ResultsOf(prior.results,
            SessionsOfStudent(prior.sessions, response.student_id))) = 2
    /\ sessions # {}
    /\ results # EmptyBag

\* the number of Result rows that reference a session, and of those that are
\* marked correct
ResultCount(rs, session) ==
    BagCardinality([r \in {x \in DOMAIN rs : x.session = session.id} |-> rs[r]])

CorrectCount(rs, session) ==
    BagCardinality([r \in {x \in DOMAIN rs : x.session = session.id /\ x.is_correct}
                      |-> rs[r]])

\* C16: after any sequence of completed SubmitAnswer and ClearResults
\* operations every TestSession has total_questions equal to the number of
\* Result rows that reference it, correct_answers equal to the number of
\* those marked correct, and 0 <= correct_answers <= total_questions.
C16_CountersAgreeWithLog ==
    \A s \in sessions :
        /\ s.total_questions = ResultCount(results, s)
        /\ s.correct_answers = CorrectCount(results, s)
        /\ 0 <= s.correct_answers
        /\ s.correct_answers <= s.total_questions

\* after a clear, a new session of the student with two Results for the same
\* vocabulary item, both marked wrong, beside a Result of an earlier key
C16_Witness ==
    \E s \in sessions :
        /\ s.id > 1
        /\ s.total_questions = 2
        /\ s.correct_answers = 0
        /\ \E r \in DOMAIN results : r.session = s.id /\ results[r] = 2
        /\ nextResultId = 4

\* the answered set as the specification defines it: the vocabulary ids of
\* the Result rows joined through the student's TestSession for the category
AnsweredThroughSession(ss, rs, student, category_id) ==
    {r.vocabulary : r \in
        {x \in DOMAIN rs :
            \E s \in ss : /\ s.id = x.session
                          /\ s.student = student
                          /\ s.category = category_id}}

\* C17: every Result row's vocabulary item is of the category of the row's
\* session, and for every student and category the answered set the view
\* computes (Results of the student's sessions, filtered by the vocabulary's
\* category) is the set of the Results joined through the student's session
\* for that category.
C17_AnsweredSetsAgree ==
    /\ \A r \in DOMAIN results :
         \E s \in sessions : /\ s.id = r.session
                             /\ VocabularyCategory[r.vocabulary] = s.category
    /\ \A st \in StudentIds, c \in CategoryInputs :
         UsedVocabIds(sessions, results, st, c)
           = AnsweredThroughSession(sessions, results, st, c)

\* a student with Results in two categories, two of them in one
C17_Witness ==
    \E st \in StudentIds :
        /\ Cardinality(AnsweredThroughSession(sessions, results, st, 1)) = 2
        /\ Cardinality(AnsweredThroughSession(sessions, results, st, 2)) = 1
        /\ Cardinality(UsedVocabIds(sessions, results, st, 1)) = 2

\* the answers of the student in the category are those of a quiz run: each
\* answered vocabulary id was answered once
QuizRun(student, category_id) ==
    AnswersIn(student, category_id) =
        Cardinality({a.vocabulary : a \in
            {x \in DOMAIN answered[student] :
                VocabularyCategory[x.vocabulary] = category_id}})

\* C18: in a quiz run of a student over a pool of n >= 3 items (each answer
\* is for the id the last question gave as correct, so after k answers k ids
\* are answered), the selection after k < n answers returns a question with
\* an unseen correct id, also when 1 or 2 items are unseen, the selection
\* after n answers returns finished, every answer for a pool id is accepted,
\* and there are never more than n answers.
C18_QuizTerminates ==
    /\ ( /\ response.op = "select"
         /\ StudentOfTeacher(response.user, response.student_id)
         /\ Cardinality(Pool(response.user, response.category_id)) >= 3
         /\ QuizRun(response.student_id, response.category_id) ) =>
          LET pool == Pool(response.user, response.category_id)
              n == Cardinality(pool)
              k == AnswersIn(response.student_id, response.category_id)
          IN  /\ k <= n
              /\ k < n => /\ response.out.kind = "question"
                          /\ response.out.question.vocab_id
                               \in pool \ AnsweredIds(response.student_id)
              /\ k = n => response.out.kind = "finished"
    /\ ( /\ response.op = "submit"
         /\ StudentOfTeacher(response.user, response.student_id)
         /\ response.selected_option_id # Missing
         /\ \E c \in CategoryIds : response.vocab_id \in Pool(response.user, c) ) =>
          response.out.kind = "answer"

\* the third question of a quiz run over a pool of three: one item is
\* unseen, it is the correct id, and the two other options were answered
C18_Witness ==
    /\ IsQuestion
    /\ QuizRun(response.student_id, response.category_id)
    /\ AnswersIn(response.student_id, response.category_id) = 2
    /\ Pool(response.user, response.category_id)
          \ AnsweredIds(response.student_id) = {response.out.question.vocab_id}
    /\ \E s \in sessions : /\ s.student = response.student_id
                            /\ s.category = response.category_id
                            /\ s.total_questions = 2

\* ------------------------------------------------- requests served at once

BothAnswered(student, category_id) ==
    \A w \in Workers :
        /\ pc[w] = "done"
        /\ local[w].op = "submit"
        /\ local[w].out.kind = "answer"
        /\ local[w].student_id = student
        /\ VocabularyCategory[local[w].vocab_id] = category_id

RECURSIVE SumOf(_, _)
SumOf(ss, field) ==
    IF ss = {} THEN 0
    ELSE LET s == CHOOSE x \in ss : TRUE
         IN  s[field] + SumOf(ss \ {s}, field)

\* C6: when two SubmitAnswer requests for the same (student, category) are
\* served at once and both have answered, both are reflected: the pair's
\* total_questions has grown by 2 and its correct_answers by the number of
\* right answers among the two (summed over the pair's session rows).
C6_NoLostUpdate ==
    \A s \in StudentIds, c \in CategoryIds :
        BothAnswered(s, c) =>
            LET mine == SessionLookup(sessions, s, c)
            IN  /\ SumOf(mine, "total_questions") = 2
                /\ SumOf(mine, "correct_answers") =
                     Cardinality({w \in Workers :
                                    local[w].vocab_id = local[w].selected_option_id})

\* the TestSession rows of a (student, category) pair, and the Result rows
\* that reference them
PairSessions(ss, student, category_id) ==
    {s \in ss : s.student = student /\ s.category = category_id}

PairResults(ss, rs, student, category_id) ==
    LET ids == {s.id : s \in PairSessions(ss, student, category_id)}
    IN  [r \in {x \in DOMAIN rs : x.session \in ids} |-> rs[r]]

\* a step of worker w on a submit request
SubmitStep(w) == pc'[w] # pc[w] /\ local'[w].op = "submit"

\* the pair a submit request writes to: none when the request is refused
\* before the vocabulary is loaded
IsPairOf(w, student, category_id) ==
    /\ local'[w].student_id = student
    /\ local'[w].vocab_id \in DOMAIN VocabularyCategory
    /\ VocabularyCategory[local'[w].vocab_id] = category_id

\* C14: every step of a SubmitAnswer for (s, c), with another request in
\* progress at the same time, leaves the session rows and counters, the
\* Result rows and the remaining set of every other pair (s', c') as they
\* are.
C14_PairsIndependent ==
    [][\A w \in Workers :
          SubmitStep(w) =>
            \A s \in StudentIds, c \in CategoryIds :
                ~IsPairOf(w, s, c) =>
                    /\ PairSessions(sessions', s, c) = PairSessions(sessions, s, c)
                    /\ PairResults(sessions', results', s, c)
                         = PairResults(sessions, results, s, c)
                    /\ \A u \in Users :
                         RemainingVocabularies(sessions', results', u, s, c)
                           = RemainingVocabularies(sessions, results, u, s, c)]_vars

\* two submits served at once, for two pairs, both answered: each pair has
\* its session of one answer
C14_Witness ==
    /\ \A w \in Workers : /\ pc[w] = "done"
                          /\ local[w].op = "submit"
                          /\ local[w].out.kind = "answer"
    /\ <<local["w1"].student_id, VocabularyCategory[local["w1"].vocab_id]>>
         # <<local["w2"].student_id, VocabularyCategory[local["w2"].vocab_id]>>
    /\ \A w \in Workers :
         \E s \in PairSessions(sessions, local[w].student_id,
                               VocabularyCategory[local[w].vocab_id]) :
            s.total_questions = 1

\* C7: at most one TestSession row exists for each (student, category).
C7_SessionUnique ==
    \A s \in StudentIds, c \in CategoryIds :
        Cardinality(SessionLookup(sessions, s, c)) <= 1

====
